---- MODULE Spec2Model ----
(***************************************************************************)
(* Model of the Raspberry Pi 5 / Waveshare AD-DA board support code:       *)
(*   src/DAC8532/python3/config_patched.py  (lgpio GPIO shim, SPI, destroy) *)
(*   src/python/AD-DA/main.py, src/python/ADS1256/main.py,                  *)
(*   src/DAC8532/python3/main.py            (the applications)              *)
(*                                                                         *)
(* The lgpio library and the kernel behind it are the environment: every   *)
(* library call gets an outcome flag e chosen by the environment, and the  *)
(* call is accepted only if the library can accept it and e is TRUE.       *)
(***************************************************************************)
EXTENDS Integers, Sequences, FiniteSets, TLC

\* ---------------------------------------------------------------- constants
RST_PIN == 18
CS_PIN == 22
CS_DAC_PIN == 23
DRDY_PIN == 17

GPIO_OUT == "out"
GPIO_IN == "in"
HIGH == 1
LOW == 0

\* the reference voltage the applications scale by (5.0), the full scale of the
\* 16-bit DAC code (0xffff) and the number of steps of a ramp (range(0,50,1))
VREF == 5
FullScale == 65535
RampSteps == 50
\* the shift of ADC_Value[0]>>7
Shift == 7
\* the greatest signed 24-bit sample (0x7fffff) and the least
MaxSample == 8388607
MinSample == -MaxSample - 1

Pins == {RST_PIN, CS_PIN, CS_DAC_PIN, DRDY_PIN}
Modes == {GPIO_OUT, GPIO_IN}

\* ------------------------------------------------------------------- bounds
\* number of wrapper operations in one run
MaxOps == 3
\* number of lines a prior run may have left held at the driver level
MaxForeign == 1
\* number of ADC reads in one run of an application
MaxReads == 2
\* number of passes of the while loop of DAC8532/python3/main.py
MaxCycles == 1
\* number of calls made through the interface of config_patched in one run
MaxCalls == 2
\* number of setups of one module_init whose first claim the environment rejects
\* (a forced rejection, on a closed handle or a foreign line, is not counted)
MaxFaults == 1

VARIABLES
    held,      \* line -> "free" | "in" | "out" (held through this handle) | "foreign"
    handle,    \* GPIO chip handle: "open" | "closed"
    spi,       \* bus channel: "open" | "closed"
    claimed,   \* GPIOWrapper.claimed: a dict in insertion order, <<[pin, mode], ...>>
    level,     \* the lines this handle drives as outputs -> the level it drives
    last,      \* the operation that ran last, with the library calls it made
    prev,      \* the operation before it
    nops,      \* operations run so far
    app,       \* the application that runs: "ADDA" | "ADS1256" | "DAC" | "none"
    pc,        \* where the application is
    result,    \* what ADC.ADS1256_init() reported: "0" | "-1" | "raised" | "none"
    nreads,    \* ADC.ADS1256_GetAll() calls made
    cause,     \* what ended the main loop: "interrupt" | "error" | "none"
    ndestroy,  \* config.destroy() calls made
    sample,    \* ADC_Value[0] of the last read
    dacA,      \* the voltage last passed to the DAC for channel A, [num, den]
    dacB,      \* the same for channel B
    step,      \* i of the for loop of DAC8532/python3/main.py
    ncycles,   \* passes of its while loop completed
    nwrites    \* DAC.DAC8532_Out_Voltage() calls made

hw == <<held, handle, spi, claimed, level>>
runvars == <<cause, ndestroy, sample, dacA, dacB, step, ncycles>>
appvars == <<app, pc, result, nreads, nwrites, runvars>>
vars == <<held, handle, spi, claimed, level, last, prev, nops, app, pc, result, nreads,
          nwrites, cause, ndestroy, sample, dacA, dacB, step, ncycles>>

\* ------------------------------------------------- self.claimed (a dict)
Keys(d) == {d[i].pin : i \in 1..Len(d)}

Has(d, pin) == pin \in Keys(d)

Get(d, pin) == d[CHOOSE i \in 1..Len(d) : d[i].pin = pin].mode

\* d[pin] = mode: an existing key keeps its place, a new one goes last
Put(d, pin, mode) ==
    IF Has(d, pin)
    THEN [i \in 1..Len(d) |-> IF d[i].pin = pin THEN [pin |-> pin, mode |-> mode] ELSE d[i]]
    ELSE Append(d, [pin |-> pin, mode |-> mode])

\* del d[pin]
Del(d, pin) == SelectSeq(d, LAMBDA r : r.pin # pin)

\* list(d.keys())
KeyList(d) == [i \in 1..Len(d) |-> d[i].pin]

\* --------------------------------------------------------- the lgpio calls
\* The world a call acts on: w = [held, handle, spi, claimed, level].
\* A call returns the world after it and the record of the call.
Call(k, pin, mode, ok, was) ==
    [k |-> k, pin |-> pin, mode |-> mode, ok |-> ok, was |-> was]

\* the driven levels l with pin driven at v / with pin no longer driven
Drive(l, pin, v) == [q \in DOMAIN l \cup {pin} |-> IF q = pin THEN v ELSE l[q]]

Undrive(l, pin) == [q \in DOMAIN l \ {pin} |-> l[q]]

\* lgpio.gpio_claim_output(handle, pin, 0) / lgpio.gpio_claim_input(handle, pin):
\* rejected on a closed handle and on a line another process holds; otherwise the
\* environment decides (busy on a line this handle holds, or a driver fault).
\* A line claimed as output is driven to the level passed to the claim, 0.
gpio_claim(w, pin, mode, e) ==
    LET ok == w.handle = "open" /\ w.held[pin] # "foreign" /\ e
    IN [w    |-> IF ok
                 THEN [w EXCEPT !.held[pin] = mode,
                                !.level = IF mode = GPIO_OUT
                                          THEN Drive(w.level, pin, 0)
                                          ELSE Undrive(w.level, pin)]
                 ELSE w,
        call |-> Call("claim", pin, mode, ok, w.held[pin])]

\* lgpio.gpio_free(handle, pin): frees a line this handle holds
gpio_free(w, pin, e) ==
    LET ok == w.handle = "open" /\ w.held[pin] \in Modes /\ e
    IN [w    |-> IF ok
                 THEN [w EXCEPT !.held[pin] = "free", !.level = Undrive(w.level, pin)]
                 ELSE w,
        call |-> Call("free", pin, "-", ok, w.held[pin])]

\* lgpio.gpio_write(handle, pin, value): works for a line claimed as output
gpio_write(w, pin, value, e) ==
    LET ok == w.handle = "open" /\ w.held[pin] = GPIO_OUT /\ e
    IN [w    |-> IF ok THEN [w EXCEPT !.level = Drive(w.level, pin, value)] ELSE w,
        call |-> Call("write", pin, "-", ok, w.held[pin])]

\* lgpio.gpio_read(handle, pin): works for any line claimed through the handle;
\* for an output it returns the level last written
gpio_read(w, pin, e) ==
    LET ok == w.handle = "open" /\ w.held[pin] \in Modes /\ e
    IN [w    |-> w,
        call |-> Call("read", pin, "-", ok, w.held[pin])]

\* lgpio.gpiochip_close(handle): rejected on a handle that is already closed;
\* closing the chip gives back every line held through it
gpiochip_close(w, e) ==
    LET ok == w.handle = "open" /\ e
    IN [w    |-> IF ok
                 THEN [w EXCEPT !.handle = "closed",
                                !.level = [q \in {} |-> 0],
                                !.held = [p \in Pins |-> IF w.held[p] \in Modes
                                                         THEN "free" ELSE w.held[p]]]
                 ELSE w,
        call |-> Call("chipclose", 0, "-", ok, w.handle)]

\* spi.close(): closing a closed SpiDev is a no-op
spi_close(w) ==
    [w    |-> [w EXCEPT !.spi = "closed"],
     call |-> Call("spiclose", 0, "-", TRUE, w.spi)]

\* ------------------------------------------------------------ GPIOWrapper
\* The result of an operation: the world after it, the library calls it made in
\* order, and whether it raised.
Res(w, calls, raised) == [w |-> w, calls |-> calls, raised |-> raised]

\* setup as it would be without the release between the two attempts
setup_NoRelease(w, pin, mode, e1, ef, e2) ==
    LET c1 == gpio_claim(w, pin, mode, e1)
    IN IF c1.call.ok
       THEN Res([c1.w EXCEPT !.claimed = Put(w.claimed, pin, mode)], <<c1.call>>, FALSE)
       ELSE LET c2 == gpio_claim(c1.w, pin, mode, e2)
            IN IF c2.call.ok
               THEN Res([c2.w EXCEPT !.claimed = Put(w.claimed, pin, mode)],
                        <<c1.call, c2.call>>, FALSE)
               ELSE Res(c2.w, <<c1.call, c2.call>>, TRUE)

\* setup as it would be without the second attempt: the first rejection raises
setup_NoRetry(w, pin, mode, e1, ef, e2) ==
    LET c1 == gpio_claim(w, pin, mode, e1)
    IN IF c1.call.ok
       THEN Res([c1.w EXCEPT !.claimed = Put(w.claimed, pin, mode)], <<c1.call>>, FALSE)
       ELSE Res(c1.w, <<c1.call>>, TRUE)

\* setup as it would be if a claimed pin were released before the first attempt
setup_ReleaseFirst(w, pin, mode, e1, ef, e2) ==
    LET fr == IF Has(w.claimed, pin)
              THEN gpio_free(w, pin, ef)
              ELSE [w |-> w, call |-> <<>>]
        pre == IF Has(w.claimed, pin) THEN <<fr.call>> ELSE <<>>
        c1 == gpio_claim(fr.w, pin, mode, e1)
        c2 == gpio_claim(c1.w, pin, mode, e2)
    IN IF c1.call.ok
       THEN Res([c1.w EXCEPT !.claimed = Put(w.claimed, pin, mode)],
                Append(pre, c1.call), FALSE)
       ELSE IF c2.call.ok
       THEN Res([c2.w EXCEPT !.claimed = Put(w.claimed, pin, mode)],
                pre \o <<c1.call, c2.call>>, FALSE)
       ELSE Res(c2.w, pre \o <<c1.call, c2.call>>, TRUE)

\* GPIOWrapper.setup(pin, mode); e1, ef, e2 are the environment's outcomes for
\* the first claim, the release and the second claim
setup(w, pin, mode, e1, ef, e2) ==
    LET c1 == gpio_claim(w, pin, mode, e1)
    IN IF c1.call.ok
       THEN Res([c1.w EXCEPT !.claimed = Put(w.claimed, pin, mode)], <<c1.call>>, FALSE)
       ELSE LET fr == IF Has(w.claimed, pin)
                      THEN gpio_free(c1.w, pin, ef)
                      ELSE [w |-> c1.w, call |-> <<>>]
                mid == IF Has(w.claimed, pin) THEN <<c1.call, fr.call>> ELSE <<c1.call>>
                c2 == gpio_claim(fr.w, pin, mode, e2)
            IN IF c2.call.ok
               THEN Res([c2.w EXCEPT !.claimed = Put(w.claimed, pin, mode)],
                        Append(mid, c2.call), FALSE)
               ELSE Res(c2.w, Append(mid, c2.call), TRUE)

\* the loop of GPIOWrapper.cleanup over list(self.claimed.keys()); F is the set of
\* pins whose release the environment rejects
RECURSIVE FreeLoop(_, _, _, _)

\* the loop as it would be without the try/except: the first rejected release
\* ends it
FreeLoop_StopAtFailure(w, keys, F, calls) ==
    IF keys = <<>>
    THEN Res(w, calls, FALSE)
    ELSE LET pin == Head(keys)
             fr == gpio_free(w, pin, pin \notin F)
         IN IF fr.call.ok
            THEN FreeLoop([fr.w EXCEPT !.claimed = Del(w.claimed, pin)],
                          Tail(keys), F, Append(calls, fr.call))
            ELSE Res(fr.w, Append(calls, fr.call), TRUE)

FreeLoop(w, keys, F, calls) ==
    IF keys = <<>>
    THEN Res(w, calls, FALSE)
    ELSE LET pin == Head(keys)
             fr == gpio_free(w, pin, pin \notin F)
         IN IF fr.call.ok
            THEN FreeLoop([fr.w EXCEPT !.claimed = Del(w.claimed, pin)],
                          Tail(keys), F, Append(calls, fr.call))
            ELSE FreeLoop(fr.w, Tail(keys), F, Append(calls, fr.call))

\* a teardown that releases the four pins of the board whether or not they were
\* acquired, and lets a rejected release propagate
cleanup_EveryPin(w, F, ec) ==
    LET l == FreeLoop_StopAtFailure(w, <<RST_PIN, CS_PIN, CS_DAC_PIN, DRDY_PIN>>,
                                    F, <<>>)
        cl == gpiochip_close(l.w, ec)
    IN IF l.raised
       THEN l
       ELSE Res(cl.w, Append(l.calls, cl.call), ~cl.call.ok)

\* GPIOWrapper.cleanup(); ec is the environment's outcome for gpiochip_close
cleanup(w, F, ec) ==
    LET l == FreeLoop(w, KeyList(w.claimed), F, <<>>)
        cl == gpiochip_close(l.w, ec)
    IN Res(cl.w, Append(l.calls, cl.call), ~cl.call.ok)

\* module_init(): the four setup calls in order, the first one that raises ends
\* it; E gives the environment's three outcomes for each pin
module_init(w, E) ==
    LET s1 == setup(w, RST_PIN, GPIO_OUT, E[RST_PIN][1], E[RST_PIN][2], E[RST_PIN][3])
        s2 == setup(s1.w, CS_PIN, GPIO_OUT, E[CS_PIN][1], E[CS_PIN][2], E[CS_PIN][3])
        s3 == setup(s2.w, CS_DAC_PIN, GPIO_OUT,
                    E[CS_DAC_PIN][1], E[CS_DAC_PIN][2], E[CS_DAC_PIN][3])
        s4 == setup(s3.w, DRDY_PIN, GPIO_IN, E[DRDY_PIN][1], E[DRDY_PIN][2], E[DRDY_PIN][3])
    IN IF s1.raised THEN s1
       ELSE IF s2.raised THEN Res(s2.w, s1.calls \o s2.calls, TRUE)
       ELSE IF s3.raised THEN Res(s3.w, s1.calls \o s2.calls \o s3.calls, TRUE)
       ELSE Res(s4.w, s1.calls \o s2.calls \o s3.calls \o s4.calls, s4.raised)

\* GPIOWrapper.output(pin, value) and digital_write(pin, value): the call goes
\* to the library whatever claimed says; an error of the library propagates
output(w, pin, value, e) ==
    LET c == gpio_write(w, pin, value, e)
    IN Res(c.w, <<c.call>>, ~c.call.ok)

digital_write(w, pin, value, e) == output(w, pin, value, e)

\* GPIOWrapper.input(pin) and digital_read(pin)
input(w, pin, e) ==
    LET c == gpio_read(w, pin, e)
    IN Res(c.w, <<c.call>>, ~c.call.ok)

digital_read(w, pin, e) == input(w, pin, e)

\* destroy()
destroy(w, F, ec) ==
    LET c == cleanup(w, F, ec)
    IN IF c.raised
       THEN c
       ELSE LET s == spi_close(c.w)
            IN Res(s.w, Append(c.calls, s.call), FALSE)

\* ----------------------------------------------------------------- actions
\* What the environment can answer to the library calls of one setup: the first
\* claim accepted, or rejected and then each of the release and the second claim
\* accepted or rejected.
Outcomes ==
    {<<TRUE, TRUE, TRUE>>} \cup {<<FALSE, ef, e2>> : ef \in BOOLEAN, e2 \in BOOLEAN}

\* the order in which module_init sets the pins up
InitOrder == <<RST_PIN, CS_PIN, CS_DAC_PIN, DRDY_PIN>>

\* What the environment can answer to the library calls of one module_init, d
\* being claimed before it. Answers that no call asks for are fixed to TRUE: the
\* release of a pin that is not in claimed, and everything after a setup whose
\* two attempts are both rejected.
InitOutcomes(d) ==
    {E \in [Pins -> Outcomes] :
        /\ \A p \in Pins : Has(d, p) \/ E[p][2]
        /\ \A i, j \in 1..4 :
              (i < j /\ ~E[InitOrder[i]][1] /\ ~E[InitOrder[i]][3])
                  => E[InitOrder[j]] = <<TRUE, TRUE, TRUE>>}

World ==
    [held |-> held, handle |-> handle, spi |-> spi, claimed |-> claimed, level |-> level]

Op(op, pin, mode, r) ==
    [op |-> op, pin |-> pin, mode |-> mode, raised |-> r.raised, calls |-> r.calls,
     before |-> World]

NoOp == [op |-> "none"]

\* the effect of an operation with result r on the hardware and the wrapper
Did(op, pin, mode, r) ==
    /\ held' = r.w.held
    /\ handle' = r.w.handle
    /\ spi' = r.w.spi
    /\ claimed' = r.w.claimed
    /\ level' = r.w.level
    /\ last' = Op(op, pin, mode, r)
    /\ prev' = last

Ran(op, pin, mode, r) ==
    /\ Did(op, pin, mode, r)
    /\ nops' = nops + 1
    /\ UNCHANGED appvars

Setup ==
    /\ nops < MaxOps
    /\ \E pin \in Pins, mode \in Modes, e \in Outcomes :
          \E r \in {setup(World, pin, mode, e[1], e[2], e[3])} :
              Ran("setup", pin, mode, r)

Cleanup ==
    /\ nops < MaxOps
    /\ \E F \in SUBSET Keys(claimed), ec \in BOOLEAN :
          \E r \in {cleanup(World, F, ec)} : Ran("cleanup", 0, "-", r)

Destroy ==
    /\ nops < MaxOps
    /\ \E F \in SUBSET Keys(claimed), ec \in BOOLEAN :
          \E r \in {destroy(World, F, ec)} : Ran("destroy", 0, "-", r)

\* After the module is loaded: GPIOWrapper.__init__ has opened the chip, nothing
\* is claimed, spi.open(0, 0) has run; a prior run may have left lines held.
Loaded ==
    /\ \E S \in SUBSET Pins :
          /\ Cardinality(S) <= MaxForeign
          /\ held = [p \in Pins |-> IF p \in S THEN "foreign" ELSE "free"]
    /\ handle = "open"
    /\ spi = "open"
    /\ claimed = <<>>
    /\ level = [q \in {} |-> 0]
    /\ last = NoOp
    /\ prev = NoOp
    /\ nops = 0

\* a voltage, as an exact fraction of two integers
Volts(num, den) == [num |-> num, den |-> den]

\* before the loop: nothing ended it, nothing was read or passed to the DAC
NotRun ==
    /\ cause = "none"
    /\ ndestroy = 0
    /\ sample = 0
    /\ dacA = Volts(0, 1)
    /\ dacB = Volts(0, 1)
    /\ step = 0
    /\ ncycles = 0

Init ==
    /\ Loaded
    /\ app = "none"
    /\ pc = "none"
    /\ result = "none"
    /\ nreads = 0
    /\ nwrites = 0
    /\ NotRun

Next == Setup \/ Cleanup \/ Destroy

Spec == Init /\ [][Next]_vars

\* ------------------------------------------- the interface of config_patched
\* any order of module_init, digital_write, digital_read and destroy
FewFaults(E) == Cardinality({p \in Pins : ~E[p][1]}) <= MaxFaults

ModuleInit ==
    /\ nops < MaxCalls
    /\ \E E \in {X \in InitOutcomes(claimed) : FewFaults(X)} :
          \E r \in {module_init(World, E)} : Ran("module_init", 0, "-", r)

DigitalWrite ==
    /\ nops < MaxCalls
    /\ \E pin \in Pins, value \in {LOW, HIGH}, e \in BOOLEAN :
          \E r \in {digital_write(World, pin, value, e)} :
              Ran("digital_write", pin, "-", r)

DigitalRead ==
    /\ nops < MaxCalls
    /\ \E pin \in Pins, e \in BOOLEAN :
          \E r \in {digital_read(World, pin, e)} : Ran("digital_read", pin, "-", r)

Teardown ==
    /\ nops < MaxCalls
    /\ \E F \in SUBSET Keys(claimed), ec \in BOOLEAN :
          \E r \in {destroy(World, F, ec)} : Ran("destroy", 0, "-", r)

IONext == ModuleInit \/ DigitalWrite \/ DigitalRead \/ Teardown

IOSpec == Init /\ [][IONext]_vars

\* ---------------------------------------------------------- applications
\* ADC.ADS1256_init(): claims the pins through config.module_init(), then asks
\* the converter for its identity; it returns 0, or -1 when the converter does
\* not answer as expected. A claim that is rejected twice raises out of it.
ADS1256_init(w, E, idok) ==
    LET m == module_init(w, E)
    IN [r |-> m, ret |-> IF m.raised THEN "raised" ELSE IF idok THEN "0" ELSE "-1"]


\* DAC8532.DAC8532(): the constructor claims the pins through
\* config.module_init(); a claim that is rejected twice raises out of it.
DAC8532_init(w, E) == module_init(w, E)

\* the samples ADC.ADS1256_GetAll() can return for channel 0: signed 24-bit
\* values, represented by the ends of the range and the values around zero and
\* around one step of the DAC code
Samples == {MinSample, -(2^Shift) - 1, -1, 0, 2^Shift, MaxSample}

\* AD-DA/main.py line 30: (ADC_Value[0]>>7)*5.0/0xffff; >> on a Python int is
\* the floor of the division by 2^7
Code(s) == s \div (2^Shift)

ADDA_Voltage(s) == Volts(Code(s) * VREF, FullScale)

\* 5.0 - v
Complement(v) == Volts(VREF * v.den - v.num, v.den)

\* DAC8532/python3/main.py lines 20, 25: 5.0 * i / 50
Ramp(i) == Volts(VREF * i, RampSteps)

\* AD-DA/main.py line 15: the value ADS1256_init returns is dropped; an exception
\* is outside the try and ends the program
ADDA_Init ==
    /\ app = "ADDA" /\ pc = "start"
    /\ \E E \in InitOutcomes(claimed), idok \in BOOLEAN :
          \E i \in {ADS1256_init(World, E, idok)} :
             /\ Did("module_init", 0, "-", i.r)
             /\ result' = i.ret
             /\ pc' = IF i.ret = "raised" THEN "crashed" ELSE "read"
    /\ UNCHANGED <<nops, app, nreads, nwrites, runvars>>

\* AD-DA/main.py line 20
ADDA_Read ==
    /\ app = "ADDA" /\ pc = "read" /\ nreads < MaxReads
    /\ nreads' = nreads + 1
    /\ sample' \in Samples
    /\ pc' = "dacA"
    /\ UNCHANGED <<hw, last, prev, nops, app, result, nwrites>>
    /\ UNCHANGED <<cause, ndestroy, dacA, dacB, step, ncycles>>

\* AD-DA/main.py lines 30, 33
ADDA_WriteA ==
    /\ app = "ADDA" /\ pc = "dacA"
    /\ nwrites' = nwrites + 1
    /\ dacA' = ADDA_Voltage(sample)
    /\ pc' = "dacB"
    /\ UNCHANGED <<hw, last, prev, nops, app, result, nreads>>
    /\ UNCHANGED <<cause, ndestroy, sample, dacB, step, ncycles>>

\* AD-DA/main.py line 34
ADDA_WriteB ==
    /\ app = "ADDA" /\ pc = "dacB"
    /\ nwrites' = nwrites + 1
    /\ dacB' = Complement(ADDA_Voltage(sample))
    /\ pc' = "read"
    /\ UNCHANGED <<hw, last, prev, nops, app, result, nreads>>
    /\ UNCHANGED <<cause, ndestroy, sample, dacA, step, ncycles>>

\* AD-DA/main.py line 36: Ctrl+C anywhere in the loop
ADDA_Interrupt ==
    /\ app = "ADDA" /\ pc \in {"read", "dacA", "dacB"}
    /\ cause' = "interrupt"
    /\ pc' = "zeroA"
    /\ UNCHANGED <<hw, last, prev, nops, app, result, nreads, nwrites>>
    /\ UNCHANGED <<ndestroy, sample, dacA, dacB, step, ncycles>>

\* AD-DA/main.py lines 17-36: only KeyboardInterrupt is caught; any other
\* exception of the loop ends the program there
ADDA_Error ==
    /\ app = "ADDA" /\ pc \in {"read", "dacA", "dacB"}
    /\ cause' = "error"
    /\ pc' = "crashed"
    /\ UNCHANGED <<hw, last, prev, nops, app, result, nreads, nwrites>>
    /\ UNCHANGED <<ndestroy, sample, dacA, dacB, step, ncycles>>

\* the handler without its second write: channel B is left as it was
ADDA_Zero_OnlyA ==
    /\ app = "ADDA" /\ pc = "zeroA"
    /\ nwrites' = nwrites + 1
    /\ dacA' = Volts(0, 1)
    /\ pc' = "destroy"
    /\ UNCHANGED <<hw, last, prev, nops, app, result, nreads>>
    /\ UNCHANGED <<cause, ndestroy, sample, dacB, step, ncycles>>

\* AD-DA/main.py lines 37-38
ADDA_Zero ==
    /\ app = "ADDA" /\ pc \in {"zeroA", "zeroB"}
    /\ nwrites' = nwrites + 1
    /\ dacA' = IF pc = "zeroA" THEN Volts(0, 1) ELSE dacA
    /\ dacB' = IF pc = "zeroB" THEN Volts(0, 1) ELSE dacB
    /\ pc' = IF pc = "zeroA" THEN "zeroB" ELSE "destroy"
    /\ UNCHANGED <<hw, last, prev, nops, app, result, nreads>>
    /\ UNCHANGED <<cause, ndestroy, sample, step, ncycles>>

\* AD-DA/main.py lines 39-41
ADDA_Destroy ==
    /\ app = "ADDA" /\ pc = "destroy"
    /\ \E F \in SUBSET Keys(claimed), ec \in BOOLEAN :
          \E d \in {destroy(World, F, ec)} :
             /\ Did("destroy", 0, "-", d)
             /\ pc' = IF d.raised THEN "crashed" ELSE "exit"
    /\ ndestroy' = ndestroy + 1
    /\ UNCHANGED <<nops, app, result, nreads, nwrites>>
    /\ UNCHANGED <<cause, sample, dacA, dacB, step, ncycles>>

\* ADS1256/main.py lines 13-18: exit(1) on -1; SystemExit and an exception of
\* the initialization both go to the finally clause
ADS_Init ==
    /\ app = "ADS1256" /\ pc = "start"
    /\ \E E \in InitOutcomes(claimed), idok \in BOOLEAN :
          \E i \in {ADS1256_init(World, E, idok)} :
             /\ Did("module_init", 0, "-", i.r)
             /\ result' = i.ret
             /\ pc' = IF i.ret = "0" THEN "read" ELSE "finally"
    /\ UNCHANGED <<nops, app, nreads, nwrites, runvars>>

\* ADS1256/main.py lines 26-30
ADS_Read ==
    /\ app = "ADS1256" /\ pc = "read" /\ nreads < MaxReads
    /\ nreads' = nreads + 1
    /\ sample' \in Samples
    /\ UNCHANGED <<hw, last, prev, nops, app, pc, result, nwrites>>
    /\ UNCHANGED <<cause, ndestroy, dacA, dacB, step, ncycles>>

\* ADS1256/main.py lines 51-55: Ctrl+C or an error in the loop
ADS_Stop ==
    /\ app = "ADS1256" /\ pc = "read"
    /\ cause' \in {"interrupt", "error"}
    /\ pc' = "finally"
    /\ UNCHANGED <<hw, last, prev, nops, app, result, nreads, nwrites>>
    /\ UNCHANGED <<ndestroy, sample, dacA, dacB, step, ncycles>>

\* ADS1256/main.py lines 55-60
ADS_Destroy ==
    /\ app = "ADS1256" /\ pc = "finally"
    /\ \E F \in SUBSET Keys(claimed), ec \in BOOLEAN :
          \E d \in {destroy(World, F, ec)} :
             /\ Did("destroy", 0, "-", d)
             /\ pc' = "exit"
    /\ ndestroy' = ndestroy + 1
    /\ UNCHANGED <<nops, app, result, nreads, nwrites>>
    /\ UNCHANGED <<cause, sample, dacA, dacB, step, ncycles>>

\* DAC8532/python3/main.py lines 13-15: the constructor, then both channels to 0;
\* an exception of the constructor is inside the try and ends in the handler,
\* whose first statement fails (see DAC_Stop)
DAC_Start ==
    /\ app = "DAC" /\ pc = "start"
    /\ \E E \in InitOutcomes(claimed) :
          \E m \in {DAC8532_init(World, E)} :
             /\ Did("module_init", 0, "-", m)
             /\ pc' = IF m.raised THEN "crashed" ELSE "ramp1"
             /\ nwrites' = IF m.raised THEN nwrites ELSE nwrites + 2
    /\ dacA' = Volts(0, 1)
    /\ dacB' = Volts(0, 1)
    /\ UNCHANGED <<nops, app, result, nreads>>
    /\ UNCHANGED <<cause, ndestroy, sample, step, ncycles>>

\* DAC8532/python3/main.py lines 19-22 (pc = "ramp1") and 24-27 (pc = "ramp2"):
\* one pass of the body of a for loop
DAC_Step ==
    /\ app = "DAC" /\ pc \in {"ramp1", "ramp2"} /\ ncycles < MaxCycles
    /\ dacA' = IF pc = "ramp1" THEN Ramp(step) ELSE Complement(Ramp(step))
    /\ dacB' = IF pc = "ramp1" THEN Complement(Ramp(step)) ELSE Ramp(step)
    /\ nwrites' = nwrites + 2
    /\ step' = (step + 1) % RampSteps
    /\ pc' = IF step + 1 < RampSteps THEN pc
             ELSE IF pc = "ramp1" THEN "ramp2" ELSE "ramp1"
    /\ ncycles' = IF step + 1 = RampSteps /\ pc = "ramp2" THEN ncycles + 1 ELSE ncycles
    /\ UNCHANGED <<hw, last, prev, nops, app, result, nreads>>
    /\ UNCHANGED <<cause, ndestroy, sample>>

\* DAC8532/python3/main.py lines 29-32: the bare except catches Ctrl+C and every
\* error of the loop; its first statement, GPIO.cleanup(), names a GPIO that the
\* file never defines or imports, so NameError ends the program there: nothing
\* is released and config.destroy() is not called
DAC_Stop ==
    /\ app = "DAC" /\ pc \in {"ramp1", "ramp2"}
    /\ cause' \in {"interrupt", "error"}
    /\ pc' = "crashed"
    /\ UNCHANGED <<hw, last, prev, nops, app, result, nreads, nwrites>>
    /\ UNCHANGED <<ndestroy, sample, dacA, dacB, step, ncycles>>

AppInit ==
    /\ Loaded
    /\ app \in {"ADDA", "ADS1256", "DAC"}
    /\ pc = "start"
    /\ result = "none"
    /\ nreads = 0
    /\ nwrites = 0
    /\ NotRun

AppNext ==
    \/ ADDA_Init \/ ADDA_Read \/ ADDA_WriteA \/ ADDA_WriteB \/ ADDA_Interrupt
    \/ ADDA_Error \/ ADDA_Zero \/ ADDA_Destroy
    \/ ADS_Init \/ ADS_Read \/ ADS_Stop \/ ADS_Destroy
    \/ DAC_Start \/ DAC_Step \/ DAC_Stop

AppSpec == AppInit /\ [][AppNext]_vars

\* ------------------------------------------------------- reading a trace
ClaimCalls(o) == SelectSeq(o.calls, LAMBDA c : c.k = "claim")

FreeCalls(o) == SelectSeq(o.calls, LAMBDA c : c.k = "free")

Issued(o, k) == \E i \in 1..Len(o.calls) : o.calls[i].k = k

\* the pins a teardown freed
Freed(o) == {o.calls[i].pin : i \in {j \in 1..Len(o.calls) :
                                      o.calls[j].k = "free" /\ o.calls[j].ok}}

\* The hardware behaved as C1 supposes during o: it rejected a claim only for a
\* line that was held, and it released a line held through the handle when asked.
RejectsOnlyHeld(o) ==
    \A i \in 1..Len(o.calls) :
        LET c == o.calls[i]
        IN /\ (c.k = "claim" /\ ~c.ok) => c.was # "free"
           /\ (c.k = "free" /\ c.was \in Modes) => c.ok

\* The library rejected closing the chip only because the handle was closed.
CloseRejectedOnlyClosed(o) ==
    \A i \in 1..Len(o.calls) :
        (o.calls[i].k = "chipclose" /\ ~o.calls[i].ok) => o.calls[i].was = "closed"

\* ------------------------------------------------------------------ claims
TwoSetups ==
    /\ last.op = "setup"
    /\ prev.op = "setup"
    /\ prev.pin = last.pin
    /\ prev.before.held[prev.pin] # "foreign"
    /\ RejectsOnlyHeld(prev)
    /\ RejectsOnlyHeld(last)

C2_SecondTeardownReturns ==
    ( /\ last.op \in {"destroy", "cleanup"}
      /\ prev.op = last.op
      /\ CloseRejectedOnlyClosed(prev)
      /\ CloseRejectedOnlyClosed(last) )
    => ~last.raised

\* C3 (as claimed): a second destroy() issues no gpio_free for a pin the first
\* destroy() freed, no second close of the chip handle the first one closed, and
\* no second close of the bus channel the first one closed.
C3_NoSecondRelease ==
    (last.op = "destroy" /\ prev.op = "destroy") =>
        /\ \A i \in 1..Len(last.calls) :
              last.calls[i].k = "free" => last.calls[i].pin \notin Freed(prev)
        /\ (\E i \in 1..Len(prev.calls) : prev.calls[i].k = "chipclose" /\ prev.calls[i].ok)
              => ~Issued(last, "chipclose")
        /\ Issued(prev, "spiclose") => ~Issued(last, "spiclose")

\* C4: cleanup() issues one gpio_free for every pin of claimed, whichever of them
\* are rejected, removes exactly the freed pins from claimed, and goes on to close
\* the chip: it raises only if that close is rejected.
C4_CleanupBestEffort ==
    last.op = "cleanup" =>
        LET frees == FreeCalls(last)
            n == Len(last.calls)
        IN /\ [i \in 1..Len(frees) |-> frees[i].pin] = KeyList(last.before.claimed)
           /\ claimed = SelectSeq(last.before.claimed, LAMBDA r : r.pin \notin Freed(last))
           /\ n = Len(frees) + 1
           /\ last.calls[n].k = "chipclose"
           /\ last.raised <=> ~last.calls[n].ok

\* a release was rejected on an open handle and a later pin was still freed
C4_Witness ==
    /\ last.op = "cleanup"
    /\ ~last.raised
    /\ \E i, j \in 1..Len(last.calls) :
          /\ i < j
          /\ last.calls[i].k = "free" /\ ~last.calls[i].ok
          /\ last.calls[j].k = "free" /\ last.calls[j].ok
    /\ Len(claimed) = 1

\* C5 (as claimed): when destroy() has ended the bus channel is closed.
C5_DestroyClosesBus == last.op = "destroy" => spi = "closed"

\* C6: setup makes one or two claim attempts and at most one release, the second
\* attempt only after the first was rejected, and raises exactly when the second
\* attempt is rejected.
C6_OneRetry ==
    last.op = "setup" =>
        LET cl == ClaimCalls(last)
        IN /\ Len(cl) \in {1, 2}
           /\ Len(FreeCalls(last)) <= 1
           /\ last.calls[1].k = "claim"
           /\ (Len(cl) = 2 <=> ~cl[1].ok)
           /\ last.raised <=> (Len(cl) = 2 /\ ~cl[2].ok)

\* both attempts were rejected and setup raised
C6_Witness ==
    /\ last.op = "setup"
    /\ Len(ClaimCalls(last)) = 2
    /\ Len(FreeCalls(last)) = 1
    /\ last.raised

\* C7 (as claimed): setup on a pin that is already claimed releases the pin
\* before every claim attempt of the call.
C7_ReleaseBeforeAnyClaim ==
    (last.op = "setup" /\ Has(last.before.claimed, last.pin)) =>
        \E i \in 1..Len(last.calls) :
            /\ last.calls[i].k = "free"
            /\ last.calls[i].pin = last.pin
            /\ \A j \in 1..Len(last.calls) : last.calls[j].k = "claim" => i < j

\* C7 (amended): setup on a pin that is already claimed first attempts the claim;
\* if the attempt is accepted nothing is released, and if it is rejected the pin's
\* release is issued next and only then the second attempt.
C7_ReleaseBeforeRetry ==
    (last.op = "setup" /\ Has(last.before.claimed, last.pin)) =>
        /\ last.calls[1].k = "claim"
        /\ last.calls[1].ok => Len(last.calls) = 1
        /\ ~last.calls[1].ok =>
              /\ Len(last.calls) = 3
              /\ last.calls[2].k = "free"
              /\ last.calls[2].pin = last.pin
              /\ last.calls[3].k = "claim"

\* an already claimed pin was released and then claimed in the other direction
C7_Witness ==
    /\ last.op = "setup"
    /\ Has(last.before.claimed, last.pin)
    /\ Get(last.before.claimed, last.pin) # last.mode
    /\ Len(last.calls) = 3
    /\ last.calls[2].ok
    /\ last.calls[3].ok

\* C8 (as claimed): whenever the first claim attempt of setup is rejected on a
\* line that is held, also one held by a prior run and absent from claimed, a
\* release of the line is issued before the retry.
C8_ReleaseOnEveryConflict ==
    ( /\ last.op = "setup"
      /\ ~last.calls[1].ok
      /\ last.calls[1].was # "free" )
    => /\ Len(last.calls) = 3
       /\ last.calls[2].k = "free"
       /\ last.calls[2].pin = last.pin

\* C9 (as claimed): outside cleanup()/destroy(), a rejected release and a claim
\* that failed (its last attempt was rejected) are raised to the caller.
C9_NoSwallowedFailure ==
    (last.op \notin {"none", "cleanup", "destroy"}) =>
        LET n == Len(last.calls)
        IN ( \/ \E i \in 1..n : last.calls[i].k = "free" /\ ~last.calls[i].ok
             \/ (last.calls[n].k = "claim" /\ ~last.calls[n].ok) )
           => last.raised

\* C10 (as claimed): once ADS1256_init has reported failure (-1), the run makes
\* no ADC read and no DAC write.
C10_NoIOAfterFailedInit == result = "-1" => (nreads = 0 /\ nwrites = 0)

\* C11 (as claimed): a pin write is accepted by the hardware only for a pin that
\* claimed records as output, and a pin read only for a pin that claimed records
\* as input.
C11_IOOnlyAsClaimed ==
    /\ (last.op = "digital_write" /\ last.calls[1].ok) =>
          /\ Has(last.before.claimed, last.pin)
          /\ Get(last.before.claimed, last.pin) = GPIO_OUT
    /\ (last.op = "digital_read" /\ last.calls[1].ok) =>
          /\ Has(last.before.claimed, last.pin)
          /\ Get(last.before.claimed, last.pin) = GPIO_IN

\* the last operation is a first destroy(), made after a prefix of module_init:
\* straight after loading, or after one module_init that started from the loaded
\* state (and ran to its end or was aborted by a rejected claim)
FirstDestroyAfterInitPrefix ==
    /\ last.op = "destroy"
    /\ \/ /\ prev = NoOp
          /\ last.before.claimed = <<>>
       \/ /\ prev.op = "module_init"
          /\ prev.before.claimed = <<>>
          /\ prev.before.handle = "open"
          /\ prev.before.spi = "open"

\* C12: after any prefix of module_init, on hardware that carries out the requests
\* it can (a release of a line held through the handle, the close of an open
\* handle), a first destroy() returns normally, asks for the release of exactly
\* the pins recorded in claimed, has them all released, leaves no line held
\* through the handle and claimed empty, and closes the bus channel.
C12_FirstDestroyReturns ==
    (/\ FirstDestroyAfterInitPrefix
     /\ RejectsOnlyHeld(last)
     /\ CloseRejectedOnlyClosed(last)) =>
        /\ ~last.raised
        /\ {FreeCalls(last)[i].pin : i \in 1..Len(FreeCalls(last))}
              = Keys(last.before.claimed)
        /\ Freed(last) = Keys(last.before.claimed)
        /\ \A p \in Pins : held[p] = IF last.before.held[p] = "foreign"
                                      THEN "foreign" ELSE "free"
        /\ claimed = <<>>
        /\ handle = "closed"
        /\ spi = "closed"

\* a module_init aborted by a rejected claim after some but not all pins were
\* claimed, followed by such a destroy()
C12_Witness ==
    /\ FirstDestroyAfterInitPrefix
    /\ RejectsOnlyHeld(last)
    /\ CloseRejectedOnlyClosed(last)
    /\ prev.op = "module_init"
    /\ prev.raised
    /\ Keys(last.before.claimed) # {}
    /\ Keys(last.before.claimed) # Pins
    /\ spi = "closed"

\* a line this handle drives at the active (low) level of a chip select
Asserted(pin) == pin \in DOMAIN level /\ level[pin] = LOW

\* C14 (as claimed): from the start of module_init onward the ADC select pin and
\* the DAC select pin are never both driven low.
C14_OneChipSelect == ~(Asserted(CS_PIN) /\ Asserted(CS_DAC_PIN))

\* C17 (as claimed): after any sequence of GPIO.setup and GPIO.cleanup calls, a
\* pin is a key of claimed exactly when the line is held through this wrapper's
\* handle, and claimed[pin] is the direction in which it is held.
C17_ClaimedMirrorsHardware ==
    \A p \in Pins :
        /\ Has(claimed, p) <=> held[p] \in Modes
        /\ Has(claimed, p) => Get(claimed, p) = held[p]

\* the run of an application is over
Ended == pc \in {"exit", "crashed"}

\* C13 (as claimed): in each application, when the run ended by a keyboard
\* interrupt or by an error raised inside the main loop, destroy() was executed
\* exactly once, and (on hardware that carries out the requests it can) no line
\* is left held and the bus channel is closed.
C13_DestroyOnEveryExit ==
    (Ended /\ cause \in {"interrupt", "error"}) =>
        /\ ndestroy = 1
        /\ (RejectsOnlyHeld(last) /\ CloseRejectedOnlyClosed(last)) =>
              /\ \A p \in Pins : held[p] \notin Modes
              /\ spi = "closed"

\* a voltage within [0, VREF]
InRange(v) == 0 <= v.num /\ v.num <= VREF * v.den

\* C15 (as claimed): for every sample the AD-DA loop has read the code s >> 7 is
\* in [0, 65535], and every voltage the AD-DA loop and the DAC ramp loop have
\* passed to the DAC, on either channel, is within [0, VREF].
C15_VoltagesInRange ==
    /\ (app = "ADDA" /\ nreads > 0) => (0 <= Code(sample) /\ Code(sample) <= FullScale)
    /\ InRange(dacA)
    /\ InRange(dacB)

\* the AD-DA run was interrupted in its loop and its handler has come to the
\* call of destroy() or beyond
ADDA_AtDestroy ==
    /\ app = "ADDA"
    /\ cause = "interrupt"
    /\ pc \in {"destroy", "exit", "crashed"}

\* C16: in the AD-DA application, after a keyboard interrupt in the main loop,
\* both channels have been commanded to 0 V when destroy() is called, destroy()
\* is called once, and once it has run no step touches a pin, the bus channel or
\* a converter any more.
C16_ZeroThenDestroyThenNothing ==
    /\ [](ADDA_AtDestroy => (dacA.num = 0 /\ dacB.num = 0 /\ ndestroy <= 1))
    /\ [][(app = "ADDA" /\ ndestroy > 0) =>
            UNCHANGED <<hw, last, nreads, nwrites, dacA, dacB, ndestroy>>]_vars

\* the loop had passed a non-zero voltage to each channel before the interrupt,
\* and the handler has run to the end
C16_Witness ==
    /\ ADDA_AtDestroy
    /\ pc = "exit"
    /\ ndestroy = 1
    /\ Code(sample) > 0
    /\ Code(sample) < FullScale
    /\ nwrites >= 4
    /\ spi = "closed"

====
